---- MODULE Spec2Model ----
(***************************************************************************)
(* Model of the todo service: the todos table (internal/database), the     *)
(* TodoRepository statements that read and write it, and the HTTP handlers *)
(* (internal/handlers) that call the repository.  Requests are served      *)
(* concurrently; every SQL statement is one atomic step, and a repository  *)
(* method that issues several statements takes several steps.              *)
(***************************************************************************)
EXTENDS Integers, Sequences, FiniteSets, TLC

\* ------------------------------------------------------------------ bounds
\* Largest value the wall clock reaches.
MaxClock == 1
\* Number of HTTP requests served in one behaviour.
MaxRequests == 2

\* Goroutines serving requests at the same time.
Procs == {"g1", "g2"}
ProcRank == [g1 |-> 1, g2 |-> 2]
\* Strings a POST body may carry as title / description.
CreateTitles == {"", "a"}
CreateDescs == {"d"}
\* Strings and booleans a PATCH body may carry.
UpdateTitles == {"", "b"}
UpdateDescs == {"e"}
UpdateFlags == {TRUE}

\* Largest number of rows in a table that a list request reads.
MaxRows == 2

\* Calls of Migrator.Run in one behaviour.
MaxRuns == 2
\* Column values of the rows a list request reads: titles, descriptions and
\* <<created_at, updated_at>> pairs.
ListTitles == {"a", "B"}
ListDescs == {"", "b"}
ListStamps == {<<0, 2>>, <<1, 1>>}
\* Values of the query parameters of GET /api/todos (absent is "").
SearchParams == {"", "b", "%"}
CompletedParams == {"", "true", "false", "yes"}
SortByParams == {"", "title", "updatedAt", "updated_at", "malicious_value"}
SortOrderParams == {"", "asc", "ASC", "desc"}

\* --------------------------------------------------------- optional values
\* A Go pointer: nil is the empty sequence, &v is <<v>>.
None == <<>>
Some(v) == <<v>>
IsSet(o) == o # <<>>
Deref(o) == o[1]
Opt(S) == {None} \cup {Some(v) : v \in S}

VARIABLES
    todos,      \* table todos: rowid -> row
    seq,        \* sqlite_sequence entry of todos (AUTOINCREMENT high-water mark)
    clock,      \* the wall clock at the latest call of time.Now()
    pc,         \* per goroutine: where its request stands
    loc,        \* per goroutine: locals of the request in progress
    nreq,       \* requests begun so far
    last,       \* the response written most recently
    issued,     \* history: the todo each Create returned, in order
    schema,     \* what migrations have left in the database
    mig         \* the Migrator and the locals of its Run in progress

vars == <<todos, seq, clock, pc, loc, nreq, last, issued, schema, mig>>

\* ------------------------------------------------------------------- time
\* time.Now() at wall clock t: the wall clock reading together with a
\* monotonic reading.
TimeNow(t) == [wall |-> t, mono |-> TRUE]
\* A time.Time bound as a statement argument is stored as its wall clock text.
BindTime(t) == t.wall
\* A DATETIME column scanned into a time.Time carries no monotonic reading.
ScanTime(c) == [wall |-> c, mono |-> FALSE]

\* ------------------------------------------------------------- statements
\* rows.Scan / row.Scan of one row of todos into a models.Todo.
ScanTodo(id, row) ==
    [ID |-> id, Title |-> row.title, Description |-> row.description,
     Completed |-> row.completed,
     CreatedAt |-> ScanTime(row.created_at), UpdatedAt |-> ScanTime(row.updated_at)]

Max(S) == CHOOSE x \in S : \A y \in S : y <= x

\* Faulty variant: INTEGER PRIMARY KEY without AUTOINCREMENT, one more than the
\* largest rowid in the table.
NextId_NoAutoincrement(tbl, s) == Max({0} \cup DOMAIN tbl) + 1

\* INTEGER PRIMARY KEY AUTOINCREMENT: one more than the largest rowid ever used.
NextId(tbl, s) == Max({s} \cup DOMAIN tbl) + 1

\* Faulty variant: only created_at is bound, updated_at is left at the zero time.
InsertTodo_UpdatedUnset(tbl, id, title, description, now) ==
    [i \in DOMAIN tbl \cup {id} |->
        IF i = id
        THEN [title |-> title, description |-> description, completed |-> FALSE,
              created_at |-> BindTime(now), updated_at |-> 0]
        ELSE tbl[i]]

\* INSERT INTO todos (title, description, completed, created_at, updated_at)
\* VALUES (?, ?, 0, ?, ?)
InsertTodo(tbl, id, title, description, now) ==
    [i \in DOMAIN tbl \cup {id} |->
        IF i = id
        THEN [title |-> title, description |-> description, completed |-> FALSE,
              created_at |-> BindTime(now), updated_at |-> BindTime(now)]
        ELSE tbl[i]]

\* Faulty variant: the Scan targets of title and description are swapped.
GetByID_SwappedScan(tbl, id) ==
    IF id \in DOMAIN tbl
    THEN Some([ScanTodo(id, tbl[id]) EXCEPT !.Title = tbl[id].description,
                                            !.Description = tbl[id].title])
    ELSE None

\* Faulty variant: sql.ErrNoRows is not told apart, the todo that Scan left
\* untouched is returned.
GetByID_NoRowsIgnored(tbl, id) ==
    IF id \in DOMAIN tbl THEN Some(ScanTodo(id, tbl[id]))
    ELSE Some([ID |-> 0, Title |-> "", Description |-> "", Completed |-> FALSE,
               CreatedAt |-> ScanTime(0), UpdatedAt |-> ScanTime(0)])

\* SELECT ... FROM todos WHERE id = ?  (nil, nil on sql.ErrNoRows)
GetByID(tbl, id) ==
    IF id \in DOMAIN tbl THEN Some(ScanTodo(id, tbl[id])) ELSE None

\* Faulty variant: the timestamp is written to the wrong column.
UpdateSet_WrongColumn(row, req, now) ==
    [title       |-> IF IsSet(req.Title) THEN Deref(req.Title) ELSE row.title,
     description |-> IF IsSet(req.Description) THEN Deref(req.Description)
                     ELSE row.description,
     completed   |-> IF IsSet(req.Completed) THEN Deref(req.Completed)
                     ELSE row.completed,
     created_at  |-> BindTime(now),
     updated_at  |-> row.updated_at]

\* Faulty variant: both timestamps are set on every update.
UpdateSet_TouchesCreated(row, req, now) ==
    [title       |-> IF IsSet(req.Title) THEN Deref(req.Title) ELSE row.title,
     description |-> IF IsSet(req.Description) THEN Deref(req.Description)
                     ELSE row.description,
     completed   |-> IF IsSet(req.Completed) THEN Deref(req.Completed)
                     ELSE row.completed,
     created_at  |-> BindTime(now),
     updated_at  |-> BindTime(now)]

\* Faulty variant: a bulk overwrite, an absent description is written as "".
UpdateSet_BulkOverwrite(row, req, now) ==
    [title       |-> IF IsSet(req.Title) THEN Deref(req.Title) ELSE row.title,
     description |-> IF IsSet(req.Description) THEN Deref(req.Description) ELSE "",
     completed   |-> IF IsSet(req.Completed) THEN Deref(req.Completed)
                     ELSE row.completed,
     created_at  |-> row.created_at,
     updated_at  |-> BindTime(now)]

\* UPDATE todos SET updated_at = ? [, title = ?] [, description = ?]
\* [, completed = ?] WHERE id = ?
UpdateSet(row, req, now) ==
    [title       |-> IF IsSet(req.Title) THEN Deref(req.Title) ELSE row.title,
     description |-> IF IsSet(req.Description) THEN Deref(req.Description)
                     ELSE row.description,
     completed   |-> IF IsSet(req.Completed) THEN Deref(req.Completed)
                     ELSE row.completed,
     created_at  |-> row.created_at,
     updated_at  |-> BindTime(now)]

\* Faulty variant: an upsert, the statement writes a row although none has the id.
UpdateStmt_Upsert(tbl, id, req, now) ==
    [i \in DOMAIN tbl \cup {id} |->
        IF i # id THEN tbl[i]
        ELSE IF id \in DOMAIN tbl THEN UpdateSet(tbl[i], req, now)
        ELSE UpdateSet([title |-> "", description |-> "", completed |-> FALSE,
                        created_at |-> BindTime(now), updated_at |-> BindTime(now)],
                       req, now)]

\* The UPDATE statement changes the rows that WHERE id = ? selects: one or none.
UpdateStmt(tbl, id, req, now) ==
    [i \in DOMAIN tbl |-> IF i = id THEN UpdateSet(tbl[i], req, now) ELSE tbl[i]]

\* DELETE FROM todos WHERE id = ?
DeleteStmt(tbl, id) == [i \in DOMAIN tbl \ {id} |-> tbl[i]]
\* Faulty variant: the affected-row count is not inspected.
RowsAffected_Ignored(tbl, id) == 1

RowsAffected(tbl, id) == IF id \in DOMAIN tbl THEN 1 ELSE 0

\* ------------------------------------------------------------ list queries
\* The characters of the strings that titles, descriptions and search terms
\* are drawn from, and the byte value of each character.
Chars ==
    ("" :> <<>>) @@ ("a" :> <<"a">>) @@ ("b" :> <<"b">>) @@ ("B" :> <<"B">>)
    @@ ("%" :> <<"%">>) @@ ("_" :> <<"_">>)
    @@ (".sql" :> <<".", "s", "q", "l">>)
    @@ ("1.sql" :> <<"1", ".", "s", "q", "l">>)
    @@ ("10.sql" :> <<"1", "0", ".", "s", "q", "l">>)
    @@ ("2.sql" :> <<"2", ".", "s", "q", "l">>)
    @@ ("d.sql" :> <<"d", ".", "s", "q", "l">>)
    @@ ("x.md" :> <<"x", ".", "m", "d">>)
Code ==
    ("%" :> 37) @@ ("B" :> 66) @@ ("_" :> 95) @@ ("a" :> 97) @@ ("b" :> 98)
    @@ ("." :> 46) @@ ("0" :> 48) @@ ("1" :> 49) @@ ("2" :> 50) @@ ("d" :> 100)
    @@ ("l" :> 108) @@ ("m" :> 109) @@ ("q" :> 113) @@ ("s" :> 115) @@ ("x" :> 120)

\* SQLite's LIKE compares ASCII letters without regard to case.
Upper == ("%" :> "%") @@ ("B" :> "B") @@ ("_" :> "_") @@ ("a" :> "A") @@ ("b" :> "B")

\* str LIKE pat, both as characters: % in the pattern stands for any run of
\* characters, _ for any one character.
RECURSIVE Like(_, _)
Like(pat, str) ==
    IF pat = <<>> THEN str = <<>>
    ELSE IF Head(pat) = "%"
         THEN Like(Tail(pat), str) \/ (str # <<>> /\ Like(pat, Tail(str)))
    ELSE IF str = <<>> THEN FALSE
    ELSE /\ (Head(pat) = "_" \/ Upper[Head(pat)] = Upper[Head(str)])
         /\ Like(Tail(pat), Tail(str))

\* searchTerm := "%" + opts.Search + "%"
SearchTerm(search) == <<"%">> \o Chars[search] \o <<"%">>

\* Faulty variant: the completed filter is not added to the query.
Where_NoCompleted(row, opts) ==
    opts.Search # "" =>
        \/ Like(SearchTerm(opts.Search), Chars[row.title])
        \/ Like(SearchTerm(opts.Search), Chars[row.description])

\* Faulty variant: the completed filter is joined with OR.
Where_Disjunctive(row, opts) ==
    \/ /\ opts.Search # ""
       /\ \/ Like(SearchTerm(opts.Search), Chars[row.title])
          \/ Like(SearchTerm(opts.Search), Chars[row.description])
    \/ /\ IsSet(opts.Completed)
       /\ row.completed = Deref(opts.Completed)
    \/ (opts.Search = "" /\ ~IsSet(opts.Completed))

\* WHERE 1=1 [AND (title LIKE ? OR description LIKE ?)] [AND completed = ?]
Where(row, opts) ==
    /\ opts.Search # "" =>
          \/ Like(SearchTerm(opts.Search), Chars[row.title])
          \/ Like(SearchTerm(opts.Search), Chars[row.description])
    /\ IsSet(opts.Completed) => row.completed = Deref(opts.Completed)

\* validFields of Search.
ValidFields == {"created_at", "updated_at", "title"}

\* Faulty variant: the requested field is used without the allow-list.
SortColumn_Unchecked(opts) == IF opts.SortBy # "" THEN opts.SortBy ELSE "created_at"

\* sortBy := "created_at", replaced by opts.SortBy if validFields has it.
SortColumn(opts) ==
    IF opts.SortBy # "" /\ opts.SortBy \in ValidFields THEN opts.SortBy ELSE "created_at"

\* Faulty variant: the order is compared without regard to case.
SortDirection_AnyCase(opts) ==
    IF opts.SortOrder \in {"asc", "ASC"} THEN "ASC" ELSE "DESC"

\* sortOrder := "DESC", "ASC" if opts.SortOrder is "asc".
SortDirection(opts) ==
    IF opts.SortOrder # "" /\ opts.SortOrder = "asc" THEN "ASC" ELSE "DESC"

\* BINARY collation of TEXT: byte by byte, a proper prefix first.
RECURSIVE BytesLess(_, _)
BytesLess(x, y) ==
    IF y = <<>> THEN FALSE
    ELSE IF x = <<>> THEN TRUE
    ELSE IF Code[Head(x)] # Code[Head(y)] THEN Code[Head(x)] < Code[Head(y)]
    ELSE BytesLess(Tail(x), Tail(y))

\* Faulty variant: title is ordered by length only.
ColumnLess_ByLength(col, r1, r2) ==
    IF col = "title" THEN Len(Chars[r1.title]) < Len(Chars[r2.title])
    ELSE IF col = "updated_at" THEN r1.updated_at < r2.updated_at
    ELSE r1.created_at < r2.created_at

\* r1 sorts strictly before r2 in ascending order of column col.
ColumnLess(col, r1, r2) ==
    IF col = "title" THEN BytesLess(Chars[r1.title], Chars[r2.title])
    ELSE IF col = "updated_at" THEN r1.updated_at < r2.updated_at
    ELSE r1.created_at < r2.created_at

\* ORDER BY col dir over the rows ids: every arrangement of them in which no
\* row comes after one it sorts strictly before (the first row is one that
\* no other row precedes, the rest are ordered likewise); SQLite leaves the
\* order of rows with equal keys open.
RECURSIVE OrderBy(_, _, _, _)
OrderBy(tbl, ids, col, dir) ==
    IF ids = {} THEN {<<>>}
    ELSE LET Precedes(i, j) ==
                 IF dir = "ASC" THEN ColumnLess(col, tbl[i], tbl[j])
                 ELSE ColumnLess(col, tbl[j], tbl[i])
             firsts == {i \in ids : \A j \in ids : ~Precedes(j, i)}
         IN UNION {{<<i>> \o s : s \in OrderBy(tbl, ids \ {i}, col, dir)} : i \in firsts}

\* The columns of table todos.
Columns == {"id", "title", "description", "completed", "created_at", "updated_at"}

\* What a list query returns: ([]models.Todo, error).  rows.Next / Scan /
\* append into var todos []models.Todo leaves the slice nil when the query
\* has no rows; QueryContext fails on a statement SQLite cannot prepare.
ScanRows(tbl, s) ==
    [err |-> FALSE,
     todos |-> IF s = <<>> THEN None
               ELSE Some([k \in DOMAIN s |-> ScanTodo(s[k], tbl[s[k]])])]
QueryError == [err |-> TRUE, todos |-> None]

\* Faulty variant: GetAll orders by updated_at.
GetAll_ByUpdated(tbl) ==
    {ScanRows(tbl, s) : s \in OrderBy(tbl, DOMAIN tbl, "updated_at", "DESC")}

\* GetAll: SELECT ... FROM todos ORDER BY created_at DESC; the results the
\* query can produce.
GetAll(tbl) ==
    {ScanRows(tbl, s) : s \in OrderBy(tbl, DOMAIN tbl, "created_at", "DESC")}

\* Search: the results the query built from opts can produce.
Search(tbl, opts) ==
    IF SortColumn(opts) \notin Columns THEN {QueryError}
    ELSE {ScanRows(tbl, s) :
            s \in OrderBy(tbl, {i \in DOMAIN tbl : Where(tbl[i], opts)},
                          SortColumn(opts), SortDirection(opts))}

\* ------------------------------------------------------------ HTTP bodies
\* json.Decode into models.CreateTodoRequest: a missing field is "".
DecodeCreate(body) ==
    [Title |-> IF IsSet(body.title) THEN Deref(body.title) ELSE "",
     Description |-> IF IsSet(body.description) THEN Deref(body.description) ELSE ""]

\* json.Decode into models.UpdateTodoRequest: a missing field stays nil.
DecodeUpdate(body) ==
    [Title |-> body.title, Description |-> body.description,
     Completed |-> body.completed]

CreateBodies == [title : Opt(CreateTitles), description : Opt(CreateDescs)]
UpdateBodies ==
    [title : Opt(UpdateTitles), description : Opt(UpdateDescs),
     completed : Opt(UpdateFlags)]

\* Ids a request path names: every id handed out so far and one never assigned.
PathIds == 1..(seq + 1)

\* Time passes between the steps of the program and never goes back: a call
\* of time.Now() finds the wall clock at its last reading or later.
Readings == clock..MaxClock

NoLocals == [id |-> 0]
Response(op, id, status, todo) == [op |-> op, id |-> id, status |-> status, todo |-> todo]

\* Faulty variant: the title is not validated.
TitleMissing_NotChecked(req) == FALSE

\* CreateTodo: if req.Title == "" { 400 "Title is required" }
TitleMissing(req) == req.Title = ""

\* Faulty variant: the early return on a missing row is left out.
NotFound_NoEarlyReturn(existing) == FALSE

\* Update: if existing == nil { return nil, nil }
NotFound(existing) == ~IsSet(existing)

\* Faulty variant: the handler does not test the repository result for nil.
TodoResponse_NoNilCheck(op, id, todo) == Response(op, id, 200, todo)

\* The handlers' answer to a repository result that is a *Todo: 200, or 404 on nil.
TodoResponse(op, id, todo) ==
    IF IsSet(todo) THEN Response(op, id, 200, todo) ELSE Response(op, id, 404, None)

\* GET /api/todos: the query string, each parameter as r.URL.Query().Get reads it.
Queries ==
    [search : SearchParams, completed : CompletedParams,
     sortBy : SortByParams, sortOrder : SortOrderParams]

\* if completedStr != "" { completed := completedStr == "true"; opts.Completed = &completed }
ParseCompleted(completedStr) ==
    IF completedStr # "" THEN Some(completedStr = "true") ELSE None

BuildOptions(query) ==
    [Search |-> query.search, Completed |-> ParseCompleted(query.completed),
     SortBy |-> query.sortBy, SortOrder |-> query.sortOrder]

\* if search == "" && opts.Completed == nil && sortBy == "" { GetAll } else { Search }
NoFilters(query, opts) ==
    query.search = "" /\ ~IsSet(opts.Completed) /\ query.sortBy = ""

\* The results the repository call of GetAllTodos can return.
ListResults(tbl, query) ==
    LET opts == BuildOptions(query)
    IN IF NoFilters(query, opts) THEN GetAll(tbl) ELSE Search(tbl, opts)

\* Faulty variant: the nil slice is passed on as it is.
NilToEmpty_Missing(slice) == slice

\* if todos == nil { todos = []models.Todo{} }
NilToEmpty(slice) == IF IsSet(slice) THEN slice ELSE Some(<<>>)

\* 500 on an error; else the 200 with the slice as json.Encode writes it: a
\* nil slice is written null, any other slice as the array of its todos.
ListResponse(query, result) ==
    IF result.err
    THEN [op |-> "list", query |-> query, status |-> 500, null |-> FALSE,
          todos |-> <<>>]
    ELSE LET slice == NilToEmpty(result.todos)
         IN [op |-> "list", query |-> query, status |-> 200,
             null |-> ~IsSet(slice),
             todos |-> IF IsSet(slice) THEN Deref(slice) ELSE <<>>]

\* -------------------------------------------------------------- migrations

\* What the embedded directory "migrations" may hold: migration files, a file
\* that is not SQL, and a directory.
DirEntries ==
    {[name |-> "1.sql", dir |-> FALSE], [name |-> "10.sql", dir |-> FALSE],
     [name |-> "2.sql", dir |-> FALSE], [name |-> "x.md", dir |-> FALSE],
     [name |-> "d.sql", dir |-> TRUE]}

\* strings.HasSuffix
HasSuffix(s, suffix) ==
    LET a == Chars[s]
        b == Chars[suffix]
    IN /\ Len(b) <= Len(a)
       /\ SubSeq(a, Len(a) - Len(b) + 1, Len(a)) = b

\* sort.Strings: ascending in the byte order of strings.
RECURSIVE SortStrings(_)
SortStrings(S) ==
    IF S = {} THEN <<>>
    ELSE LET first == CHOOSE x \in S : \A y \in S \ {x} : BytesLess(Chars[x], Chars[y])
         IN <<first>> \o SortStrings(S \ {first})

\* The names Run collects from the directory: entries that are not
\* directories and end in .sql, sorted.
MigrationFiles(fs) ==
    SortStrings({e.name : e \in {d \in fs : ~d.dir /\ HasSuffix(d.name, ".sql")}})

\* The database before any Run: no schema_migrations table, no migration's
\* statements in effect.
NoSchema == [tracking |-> FALSE, effects |-> <<>>, recorded |-> {}]

\* CREATE TABLE IF NOT EXISTS schema_migrations (... filename TEXT NOT NULL UNIQUE ...)
CreateMigrationsTable(db) == [db EXCEPT !.tracking = TRUE]

\* SELECT filename FROM schema_migrations, into a map[string]bool
GetAppliedMigrations(db) == db.recorded

\* A transaction holds what it has written until it ends.
BeginTx == [effects |-> <<>>, recorded |-> {}]

\* tx.ExecContext(ctx, string(content)): the migration's statements
TxExec(tx, filename) == [tx EXCEPT !.effects = Append(@, filename)]

\* filename is UNIQUE in schema_migrations.
RecordConflict(db, tx, filename) == filename \in db.recorded \cup tx.recorded

\* INSERT INTO schema_migrations (filename) VALUES (?)
TxRecord(tx, filename) == [tx EXCEPT !.recorded = @ \cup {filename}]

Commit(db, tx) ==
    [db EXCEPT !.effects = @ \o tx.effects, !.recorded = @ \cup tx.recorded]

\* Faulty variant: the migration's statements run on the database handle, not
\* on the transaction, and stay when the transaction is rolled back.
Rollback_StatementsStay(db, tx) == [db EXCEPT !.effects = @ \o tx.effects]

Rollback(db, tx) == db

NewMigrator(fs) ==
    [fs |-> fs, pc |-> "idle", files |-> <<>>, applied |-> {}, i |-> 0,
     tx |-> None, runs |-> 0, err |-> FALSE]

\* ------------------------------------------------------------------- init
\* The database file outlives the process and Initialize creates the table
\* only if it is absent: the server starts on an empty table, or on what an
\* earlier run left, here one todo created with title "a" at time 0.
Persisted == InsertTodo(<<>>, 1, "a", "", TimeNow(0))

Init ==
    /\ \E kept \in BOOLEAN :
          /\ todos = (IF kept THEN Persisted ELSE <<>>)
          /\ seq = (IF kept THEN 1 ELSE 0)
          /\ issued = (IF kept THEN <<ScanTodo(1, Persisted[1])>> ELSE <<>>)
    /\ clock = 0
    /\ pc = [p \in Procs |-> "idle"]
    /\ loc = [p \in Procs |-> NoLocals]
    /\ nreq = 0
    /\ last = Response("none", 0, 0, None)
    /\ schema = NoSchema
    /\ mig = NewMigrator({})

\* A request is handed to the first goroutine that is free.
FirstFree(p) == pc[p] = "idle" /\ \A q \in Procs : pc[q] = "idle" => ProcRank[p] <= ProcRank[q]

Begin(p) ==
    /\ nreq < MaxRequests
    /\ FirstFree(p)
    /\ nreq' = nreq + 1

\* GET /api/todos/{id}
GetTodo(p, id) ==
    /\ Begin(p)
    /\ last' = TodoResponse("get", id, GetByID(todos, id))
    /\ UNCHANGED <<todos, seq, clock, pc, loc, issued, schema, mig>>

\* POST /api/todos: decode, validate the title, then repository Create up to
\* its now := time.Now(), which reads t.
CreateTodo(p, body, t) ==
    /\ Begin(p)
    /\ LET req == DecodeCreate(body) IN
       IF TitleMissing(req)
       THEN /\ last' = Response("create", 0, 400, None)
            /\ UNCHANGED <<pc, loc, clock>>
       ELSE /\ pc' = [pc EXCEPT ![p] = "insert"]
            /\ loc' = [loc EXCEPT ![p] = [req |-> req, now |-> TimeNow(t)]]
            /\ clock' = t
            /\ UNCHANGED last
    /\ UNCHANGED <<todos, seq, issued, schema, mig>>

\* Repository Create: the INSERT ... RETURNING statement scanned into the
\* todo it returns, and the handler's 201.
CreateInsert(p) ==
    /\ pc[p] = "insert"
    /\ LET id == NextId(todos, seq)
           req == loc[p].req
           tbl == InsertTodo(todos, id, req.Title, req.Description, loc[p].now)
           todo == ScanTodo(id, tbl[id])
       IN /\ todos' = tbl
          /\ seq' = id
          /\ last' = Response("create", id, 201, Some(todo))
          /\ issued' = Append(issued, todo)
    /\ pc' = [pc EXCEPT ![p] = "idle"]
    /\ loc' = [loc EXCEPT ![p] = NoLocals]
    /\ UNCHANGED <<clock, nreq, schema, mig>>

\* PATCH /api/todos/{id}: repository Update up to its existence check (the
\* first GetByID); a missing row is answered 404 without a write.  Nothing
\* reads the decoded body before the UPDATE statement is built, so the model
\* draws the body there (UpdateExec).
UpdateTodo(p, id) ==
    /\ Begin(p)
    /\ LET existing == GetByID(todos, id)
       IN IF NotFound(existing)
          THEN /\ last' = TodoResponse("update", id, None)
               /\ UNCHANGED <<pc, loc>>
          ELSE /\ pc' = [pc EXCEPT ![p] = "now"]
               /\ loc' = [loc EXCEPT ![p] = [id |-> id]]
               /\ UNCHANGED last
    /\ UNCHANGED <<todos, seq, clock, issued, schema, mig>>

\* Repository Update: args := []interface{}{time.Now()}, which reads t.
UpdateNow(p, t) ==
    /\ pc[p] = "now"
    /\ pc' = [pc EXCEPT ![p] = "exec"]
    /\ loc' = [loc EXCEPT ![p] = [id |-> loc[p].id, now |-> TimeNow(t)]]
    /\ clock' = t
    /\ UNCHANGED <<todos, seq, nreq, last, issued, schema, mig>>

\* Repository Update: the UPDATE statement, built from the request that the
\* handler decoded from body.  ExecContext's result is discarded by the code
\* (_, err = ...); affected keeps the row count it carried.
UpdateExec(p, body) ==
    /\ pc[p] = "exec"
    /\ LET req == DecodeUpdate(body) IN
       /\ todos' = UpdateStmt(todos, loc[p].id, req, loc[p].now)
       /\ loc' = [loc EXCEPT ![p] = [id |-> loc[p].id, req |-> req,
                                     affected |-> RowsAffected(todos, loc[p].id)]]
    /\ pc' = [pc EXCEPT ![p] = "reread"]
    /\ UNCHANGED <<seq, clock, nreq, last, issued, schema, mig>>

\* Repository Update: return r.GetByID(id), and the handler's 200 / 404.
UpdateReread(p) ==
    /\ pc[p] = "reread"
    /\ last' = TodoResponse("update", loc[p].id, GetByID(todos, loc[p].id))
    /\ pc' = [pc EXCEPT ![p] = "idle"]
    /\ loc' = [loc EXCEPT ![p] = NoLocals]
    /\ UNCHANGED <<todos, seq, clock, nreq, issued, schema, mig>>

\* DELETE /api/todos/{id}: the DELETE statement; zero rows affected is
\* sql.ErrNoRows, which the handler answers 404, and otherwise 204.
DeleteTodo(p, id) ==
    /\ Begin(p)
    /\ todos' = DeleteStmt(todos, id)
    /\ last' = IF RowsAffected(todos, id) = 0
               THEN Response("delete", id, 404, None)
               ELSE Response("delete", id, 204, None)
    /\ UNCHANGED <<seq, clock, pc, loc, issued, schema, mig>>

Next ==
    \/ \E p \in Procs, id \in PathIds : GetTodo(p, id)
    \/ \E p \in Procs, body \in CreateBodies, t \in Readings : CreateTodo(p, body, t)
    \/ \E p \in Procs : CreateInsert(p)
    \/ \E p \in Procs, id \in PathIds : UpdateTodo(p, id)
    \/ \E p \in Procs, t \in Readings : UpdateNow(p, t)
    \/ \E p \in Procs, body \in UpdateBodies : UpdateExec(p, body)
    \/ \E p \in Procs : UpdateReread(p)
    \/ \E p \in Procs, id \in PathIds : DeleteTodo(p, id)

Spec == Init /\ [][Next]_vars

\* ------------------------------------------------- requests as they arrive
\* The {id} segment of a request path, and strconv.ParseInt(idStr, 10, 64) of
\* it: the decimal numerals of the ids in reach, and two segments that are
\* not numerals.
Decimal == ("1" :> 1) @@ ("2" :> 2) @@ ("3" :> 3) @@ ("4" :> 4) @@ ("5" :> 5)
BadSegs == {"abc", "1x"}
PathSegs == {seg \in DOMAIN Decimal : Decimal[seg] \in PathIds} \cup BadSegs

\* Faulty variant: the error of ParseInt is dropped, the id is its zero value.
ParseInt_ErrorDropped(idStr) ==
    IF idStr \in DOMAIN Decimal THEN [err |-> FALSE, id |-> Decimal[idStr]]
    ELSE [err |-> FALSE, id |-> 0]

ParseInt(idStr) ==
    IF idStr \in DOMAIN Decimal THEN [err |-> FALSE, id |-> Decimal[idStr]]
    ELSE [err |-> TRUE, id |-> 0]

\* The handlers' 400: nothing but the response is written.
BadRequest(p, op) ==
    /\ Begin(p)
    /\ last' = Response(op, 0, 400, None)
    /\ UNCHANGED <<todos, seq, clock, pc, loc, issued, schema, mig>>

\* GET /api/todos/{id} from the path segment on.
GetTodoRequest(p, idStr) ==
    LET parsed == ParseInt(idStr)
    IN IF parsed.err THEN BadRequest(p, "get") ELSE GetTodo(p, parsed.id)

\* POST /api/todos from the body on: raw is None for bytes that
\* json.Decode rejects, and the JSON object otherwise.
CreateTodoRequest(p, raw, t) ==
    IF ~IsSet(raw) THEN BadRequest(p, "create") ELSE CreateTodo(p, Deref(raw), t)

\* PATCH /api/todos/{id} from the path segment and the body on; the fields of
\* a body that decodes are drawn at UpdateExec.
UpdateTodoRequest(p, idStr, decodes) ==
    LET parsed == ParseInt(idStr)
    IN IF parsed.err \/ ~decodes THEN BadRequest(p, "update")
       ELSE UpdateTodo(p, parsed.id)

\* DELETE /api/todos/{id} from the path segment on.  execFails: ExecContext
\* of the DELETE statement returns an error (the store cannot run it), Delete
\* returns it wrapped, and the handler answers any error of Delete with 404.
DeleteTodoRequest(p, idStr, execFails) ==
    LET parsed == ParseInt(idStr)
    IN IF parsed.err THEN BadRequest(p, "delete")
       ELSE IF execFails
            THEN /\ Begin(p)
                 /\ last' = Response("delete", parsed.id, 404, None)
                 /\ UNCHANGED <<todos, seq, clock, pc, loc, issued, schema, mig>>
       ELSE DeleteTodo(p, parsed.id)

\* The service with requests taken as they arrive, malformed ones and a
\* failing store included; Spec is its part with well-formed requests and a
\* store that executes every statement.
NextHTTP ==
    \/ \E p \in Procs, idStr \in PathSegs : GetTodoRequest(p, idStr)
    \/ \E p \in Procs, raw \in Opt(CreateBodies), t \in Readings :
          CreateTodoRequest(p, raw, t)
    \/ \E p \in Procs : CreateInsert(p)
    \/ \E p \in Procs, idStr \in PathSegs, decodes \in BOOLEAN :
          UpdateTodoRequest(p, idStr, decodes)
    \/ \E p \in Procs, t \in Readings : UpdateNow(p, t)
    \/ \E p \in Procs, body \in UpdateBodies : UpdateExec(p, body)
    \/ \E p \in Procs : UpdateReread(p)
    \/ \E p \in Procs, idStr \in PathSegs, execFails \in BOOLEAN :
          DeleteTodoRequest(p, idStr, execFails)

SpecHTTP == Init /\ [][NextHTTP]_vars

\* ------------------------------------------------------------ list requests
\* A list request reads the table and writes nothing, so it is followed from
\* the tables themselves: InitList is the program with one request left to
\* serve and any table that Create, Update and Delete can have left, rows
\* under ids 1..n.
ListRows ==
    {[title |-> t, description |-> d, completed |-> c,
      created_at |-> st[1], updated_at |-> st[2]] :
        t \in ListTitles, d \in ListDescs, c \in BOOLEAN, st \in ListStamps}
\* No list query reads the id, so tables that differ only in the numbering of
\* their rows are one case; the numbering kept is by created_at, then title,
\* description and completed.
RowBefore(r1, r2) ==
    IF r1.created_at # r2.created_at THEN r1.created_at < r2.created_at
    ELSE IF r1.title # r2.title THEN BytesLess(Chars[r1.title], Chars[r2.title])
    ELSE IF r1.description # r2.description
         THEN BytesLess(Chars[r1.description], Chars[r2.description])
    ELSE r1.completed = FALSE /\ r2.completed = TRUE
ListTables ==
    {tbl \in UNION {[1..n -> ListRows] : n \in 0..MaxRows} :
        \A i, j \in DOMAIN tbl : i < j => ~RowBefore(tbl[j], tbl[i])}

InitList ==
    /\ todos \in ListTables
    /\ seq = Len(todos)
    /\ issued = <<>>
    /\ clock = Max({0} \cup {todos[i].updated_at : i \in DOMAIN todos})
    /\ pc = [p \in Procs |-> "idle"]
    /\ loc = [p \in Procs |-> NoLocals]
    /\ nreq = MaxRequests - 1
    /\ last = Response("none", 0, 0, None)
    /\ schema = NoSchema
    /\ mig = NewMigrator({})

\* GET /api/todos: one SELECT, GetAll's when the request has no search term,
\* no completed value and no sort field, and Search's otherwise.
GetAllTodos(p, query) ==
    /\ Begin(p)
    /\ \E result \in ListResults(todos, query) : last' = ListResponse(query, result)
    /\ UNCHANGED <<todos, seq, clock, pc, loc, issued, schema, mig>>

NextList == \E p \in Procs, query \in Queries : GetAllTodos(p, query)

SpecList == InitList /\ [][NextList]_vars

\* ------------------------------------------------------------ migration runs

service == <<todos, seq, clock, pc, loc, nreq, last, issued>>

\* A Migrator over some directory and a fresh database; no request is served
\* while migrations run.
InitMigrate ==
    /\ todos = <<>>
    /\ seq = 0
    /\ issued = <<>>
    /\ clock = 0
    /\ pc = [p \in Procs |-> "idle"]
    /\ loc = [p \in Procs |-> NoLocals]
    /\ nreq = 0
    /\ last = Response("none", 0, 0, None)
    /\ schema = NoSchema
    /\ \E fs \in SUBSET DirEntries : mig = NewMigrator(fs)

\* Run, up to its loop: create the tracking table, read and sort the
\* directory, read the applied set once. ok is whether all of that succeeds.
Run(ok) ==
    /\ mig.pc = "idle"
    /\ mig.runs < MaxRuns
    /\ IF ok
       THEN /\ schema' = CreateMigrationsTable(schema)
            /\ mig' = [mig EXCEPT !.pc = "loop", !.files = MigrationFiles(mig.fs),
                                  !.applied = GetAppliedMigrations(schema'),
                                  !.i = 1, !.runs = @ + 1, !.err = FALSE]
       ELSE /\ schema' = schema
            /\ mig' = [mig EXCEPT !.runs = @ + 1, !.err = TRUE]
    /\ UNCHANGED service

\* Any error of applyMigration: the deferred Rollback, and Run returns it.
ReturnError(tx) ==
    /\ schema' = Rollback(schema, tx)
    /\ mig' = [mig EXCEPT !.pc = "idle", !.tx = None, !.err = TRUE]

\* One turn of Run's loop: return nil after the last file, skip a file that
\* was applied, otherwise enter applyMigration, which reads the file and
\* begins a transaction. ok is whether those two succeed.
RunLoop(ok) ==
    /\ mig.pc = "loop"
    /\ IF mig.i > Len(mig.files)
       THEN mig' = [mig EXCEPT !.pc = "idle"]
       ELSE IF mig.files[mig.i] \in mig.applied
       THEN mig' = [mig EXCEPT !.i = @ + 1]
       ELSE IF ok
       THEN mig' = [mig EXCEPT !.pc = "exec", !.tx = Some(BeginTx)]
       ELSE mig' = [mig EXCEPT !.pc = "idle", !.err = TRUE]
    /\ UNCHANGED <<schema, service>>

\* applyMigration: the migration's statements, in the transaction. They all
\* run ("ok"), or fail after some of them ran ("partly") or before any did.
ApplyMigrationExec(outcome) ==
    /\ mig.pc = "exec"
    /\ LET filename == mig.files[mig.i]
           tx == Deref(mig.tx)
       IN IF outcome = "ok"
          THEN /\ mig' = [mig EXCEPT !.pc = "record", !.tx = Some(TxExec(tx, filename))]
               /\ schema' = schema
          ELSE IF outcome = "partly"
          THEN ReturnError(TxExec(tx, filename))
          ELSE ReturnError(tx)
    /\ UNCHANGED service

\* applyMigration: the INSERT into schema_migrations, in the transaction.
ApplyMigrationRecord(ok) ==
    /\ mig.pc = "record"
    /\ LET filename == mig.files[mig.i]
           tx == Deref(mig.tx)
       IN IF ok /\ ~RecordConflict(schema, tx, filename)
          THEN /\ mig' = [mig EXCEPT !.pc = "commit", !.tx = Some(TxRecord(tx, filename))]
               /\ schema' = schema
          ELSE ReturnError(tx)
    /\ UNCHANGED service

\* applyMigration: tx.Commit(), then back to Run's loop.
ApplyMigrationCommit(ok) ==
    /\ mig.pc = "commit"
    /\ IF ok
       THEN /\ schema' = Commit(schema, Deref(mig.tx))
            /\ mig' = [mig EXCEPT !.pc = "loop", !.tx = None, !.i = @ + 1]
       ELSE ReturnError(Deref(mig.tx))
    /\ UNCHANGED service

NextMigrate ==
    \/ \E ok \in BOOLEAN : Run(ok)
    \/ \E ok \in BOOLEAN : RunLoop(ok)
    \/ \E outcome \in {"ok", "partly", "not at all"} : ApplyMigrationExec(outcome)
    \/ \E ok \in BOOLEAN : ApplyMigrationRecord(ok)
    \/ \E ok \in BOOLEAN : ApplyMigrationCommit(ok)

SpecMigrate == InitMigrate /\ [][NextMigrate]_vars

\* ------------------------------------------------------------------ claims
OnlyCompleted == [Title |-> None, Description |-> None, Completed |-> Some(TRUE)]

\* C1: the UPDATE that Update issues for an existing todo sets exactly the
\* fields present in the request to the supplied values and leaves every
\* absent field of title, description and completed at its prior value; no
\* other row changes.
C1_UpdateSetsExactlyPresentFields ==
    [][\A p \in Procs, body \in UpdateBodies :
          (UpdateExec(p, body) /\ loc[p].id \in DOMAIN todos) =>
             LET id == loc[p].id IN
             /\ DOMAIN todos' = DOMAIN todos
             /\ todos'[id].title =
                   IF IsSet(body.title) THEN Deref(body.title) ELSE todos[id].title
             /\ todos'[id].description =
                   IF IsSet(body.description) THEN Deref(body.description)
                   ELSE todos[id].description
             /\ todos'[id].completed =
                   IF IsSet(body.completed) THEN Deref(body.completed)
                   ELSE todos[id].completed
             /\ \A i \in DOMAIN todos \ {id} : todos'[i] = todos[i]]_vars

\* An Update with only completed set has been executed on a todo created with
\* title "a" and description "d": completed changed, title and description kept.
C1_Witness ==
    \E p \in Procs :
       /\ pc[p] = "reread"
       /\ loc[p].req = OnlyCompleted
       /\ loc[p].id \in DOMAIN todos
       /\ todos[loc[p].id].completed
       /\ todos[loc[p].id].title = "a"
       /\ todos[loc[p].id].description = "d"

\* C2: Update on an id that is not in the store answers not found (nil todo,
\* no error: 404) at once and leaves the store unchanged.
C2_UpdateMissingIdNotFound ==
    [][\A p \in Procs, id \in PathIds :
          (UpdateTodo(p, id) /\ id \notin DOMAIN todos) =>
             /\ last' = Response("update", id, 404, None)
             /\ pc'[p] = "idle"
             /\ todos' = todos
             /\ seq' = seq]_vars

\* A PATCH of an id never assigned was answered 404 with todos in the store.
C2_Witness ==
    /\ last.op = "update"
    /\ last.status = 404
    /\ last.id > seq
    /\ todos # <<>>

\* C3: Delete(id) succeeds (204) exactly when id is in the store, and then the
\* row is gone: GetByID(id) is not found and a further Delete affects no row;
\* it removes no other row, and only Create's INSERT ever adds a row.
C3_DeleteOnceThenNotFound ==
    [][/\ \A p \in Procs, id \in PathIds :
             DeleteTodo(p, id) =>
                /\ last'.op = "delete" /\ last'.id = id
                /\ last'.status = (IF id \in DOMAIN todos THEN 204 ELSE 404)
                /\ GetByID(todos', id) = None
                /\ id \notin DOMAIN todos'
                /\ \A i \in DOMAIN todos \ {id} : i \in DOMAIN todos' /\ todos'[i] = todos[i]
       /\ (\A p \in Procs : ~CreateInsert(p)) => DOMAIN todos' \subseteq DOMAIN todos]_vars

\* A Delete of an id that Create had assigned, and that an earlier Delete
\* removed, was answered 404.
C3_Witness ==
    /\ last.op = "delete"
    /\ last.status = 404
    /\ \E k \in 1..Len(issued) : issued[k].ID = last.id

\* C4: the todo Create returns and the todo GetByID returns for its id right
\* after (no statement in between) are equal in every field: id, title,
\* description, completed, createdAt, updatedAt.
C4_CreateGetByIDRoundTrip ==
    [][\A p \in Procs :
          CreateInsert(p) =>
             /\ last'.op = "create" /\ last'.status = 201 /\ IsSet(last'.todo)
             /\ GetByID(todos', Deref(last'.todo).ID) = last'.todo]_vars

\* A GET was answered 200 with exactly a todo that a Create returned.
C4_Witness ==
    /\ last.op = "get"
    /\ last.status = 200
    /\ \E k \in 1..Len(issued) : Some(issued[k]) = last.todo

\* C5: every successful Create returns (and stores) a todo with
\* completed = false, the request's title and description (description ""
\* when the body omits it), createdAt = updatedAt, and an id that no todo
\* in the store had.
C5_CreateDefaults ==
    [][/\ \A p \in Procs :
             CreateInsert(p) =>
                LET todo == Deref(last'.todo) IN
                /\ last'.status = 201
                /\ todo.Completed = FALSE
                /\ todo.Title = loc[p].req.Title
                /\ todo.Description = loc[p].req.Description
                /\ todo.CreatedAt = todo.UpdatedAt
                /\ todo.ID \notin DOMAIN todos
                /\ todo.ID \in DOMAIN todos'
                /\ todo = ScanTodo(todo.ID, todos'[todo.ID])
                /\ \A i \in DOMAIN todos : todos'[i] = todos[i]
       /\ \A p \in Procs, body \in CreateBodies, t \in Readings :
             (CreateTodo(p, body, t) /\ pc'[p] = "insert") =>
                /\ Some(loc'[p].req.Title) = body.title
                /\ loc'[p].req.Description =
                      (IF IsSet(body.description) THEN Deref(body.description) ELSE "")]_vars

\* A Create with only a title was answered 201 with description "" while
\* another todo was in the store.
C5_Witness ==
    /\ last.op = "create"
    /\ last.status = 201
    /\ Deref(last.todo).Description = ""
    /\ Deref(last.todo).Title = "a"
    /\ Cardinality(DOMAIN todos) = 2

\* C6: a POST whose title is empty or missing is answered 400 in the handler:
\* the repository's Create is not entered (no time.Now(), no INSERT pending)
\* and the store is unchanged.
C6_EmptyTitleRejected ==
    [][\A p \in Procs, body \in CreateBodies, t \in Readings :
          (CreateTodo(p, body, t) /\ (body.title = None \/ body.title = Some(""))) =>
             /\ last' = Response("create", 0, 400, None)
             /\ pc'[p] = "idle"
             /\ loc'[p] = NoLocals
             /\ clock' = clock
             /\ todos' = todos
             /\ seq' = seq
             /\ issued' = issued]_vars

\* A POST was answered 400 while the store held a todo.
C6_Witness ==
    /\ last = Response("create", 0, 400, None)
    /\ todos # <<>>

\* C7: after any sequence of POST, PATCH and DELETE requests every todo in the
\* store has a non-empty title.
C7_TitlesNonEmpty == \A i \in DOMAIN todos : todos[i].title # ""

\* C8: every todo in the store has updatedAt >= createdAt, in every reachable
\* state of any interleaving of Create, Update and Delete under a clock that
\* never goes back.
C8_UpdatedNotBeforeCreated ==
    \A i \in DOMAIN todos : todos[i].updated_at >= todos[i].created_at

\* A todo whose Update read the clock later than its Create did.
C8_Witness ==
    \E i \in DOMAIN todos : todos[i].updated_at > todos[i].created_at

\* C9: a todo in the store carries the id and the createdAt that its Create
\* returned, whatever Updates have run since.
C9_IdAndCreatedAtKept ==
    \A k \in 1..Len(issued) :
       LET now == GetByID(todos, issued[k].ID) IN
       IsSet(now) =>
          /\ Deref(now).ID = issued[k].ID
          /\ Deref(now).CreatedAt = issued[k].CreatedAt

\* A todo that an Update has changed since its Create (other title, later
\* updatedAt) and that still has its createdAt.
C9_Witness ==
    \E k \in 1..Len(issued) :
       LET now == GetByID(todos, issued[k].ID) IN
       /\ IsSet(now)
       /\ Deref(now).Title # issued[k].Title
       /\ Deref(now).UpdatedAt # issued[k].UpdatedAt
       /\ Deref(now).CreatedAt = issued[k].CreatedAt

\* C10: the ids Create assigns are strictly increasing over the whole history,
\* so they are unique and the id of a deleted todo is never assigned again.
C10_IdsStrictlyIncreasing ==
    \A j, k \in 1..Len(issued) : j < k => issued[j].ID < issued[k].ID

\* A Create answered after the todo with the largest id so far was deleted:
\* the store holds only the new todo, whose id is 2.
C10_Witness ==
    /\ Len(issued) = 2
    /\ last.op = "create"
    /\ last.status = 201
    /\ issued[1].ID \notin DOMAIN todos
    /\ DOMAIN todos = {issued[2].ID}

\* C11: deleted is terminal.  A todo id that has been issued and is no longer
\* in the table is not in the table after any later step: neither a Create,
\* nor an Update, nor the UPDATE statement of an Update that was in progress
\* when the Delete ran, makes that id present again.
C11_DeletedIsTerminal ==
    [][\A k \in 1..Len(issued) :
          issued[k].ID \notin DOMAIN todos => issued[k].ID \notin DOMAIN todos']_vars

\* The UPDATE statement of an Update has run after a Delete removed its row,
\* and the row is still absent.
C11_Witness ==
    \E p \in Procs :
       /\ pc[p] = "reread"
       /\ loc[p].affected = 0
       /\ loc[p].id \notin DOMAIN todos
       /\ \E k \in 1..Len(issued) : issued[k].ID = loc[p].id
       /\ last = Response("delete", loc[p].id, 204, None)

\* C12 as stated: when a Delete of the same id ran between Update's existence
\* check and its UPDATE statement, so that the statement affected zero rows,
\* Update reports success, a todo with HTTP 200.
C12_RaceReportsSuccess ==
    [][\A p \in Procs :
          (UpdateReread(p) /\ loc[p].affected = 0) =>
             (last'.op = "update" /\ last'.status = 200 /\ IsSet(last'.todo))]_vars

\* C12 amended: the interleaving is reachable, and an Update whose UPDATE
\* statement affected zero rows reports not found: its re-read finds no row,
\* it returns no todo, and the handler answers 404.
C12_RaceReportsNotFound ==
    [][\A p \in Procs :
          (UpdateReread(p) /\ loc[p].affected = 0) =>
             last' = Response("update", loc[p].id, 404, None)]_vars

\* Two requests on todo 1: an Update that passed its existence check (it went
\* on to read the clock) and a Delete that removed the row; the Update was
\* answered 404.
C12_Witness ==
    /\ last = Response("update", 1, 404, None)
    /\ clock = MaxClock
    /\ nreq = 2
    /\ Len(issued) = 1
    /\ todos = <<>>
    /\ \A p \in Procs : pc[p] = "idle"

\* ----------------------------------------------------- claims on list requests
\* The ids of the todos in the latest list response, and whether each is
\* listed once.
ListedIds == {last.todos[k].ID : k \in DOMAIN last.todos}
ListedOnce == Cardinality(ListedIds) = Len(last.todos)

\* term occurs in str as a substring, ASCII letters compared without regard
\* to case.
Contains(str, term) ==
    LET s == Chars[str]
        t == Chars[term]
    IN \E i \in 0..Len(s) :
          /\ i + Len(t) <= Len(s)
          /\ \A k \in 1..Len(t) : Upper[s[i + k]] = Upper[t[k]]

\* x is at or before y in the byte order of strings.
StrLeq(x, y) ==
    LET a == Chars[x]
        b == Chars[y]
    IN \/ /\ Len(a) <= Len(b)
          /\ \A m \in 1..Len(a) : a[m] = b[m]
       \/ \E k \in 1..Len(a) :
             /\ k <= Len(b)
             /\ \A m \in 1..(k - 1) : a[m] = b[m]
             /\ Code[a[k]] < Code[b[k]]

\* Todo x may come before todo y in a listing ordered by field, ascending.
KeyLeq(field, x, y) ==
    IF field = "title" THEN StrLeq(x.Title, y.Title)
    ELSE IF field = "updated_at" THEN x.UpdatedAt.wall <= y.UpdatedAt.wall
    ELSE x.CreatedAt.wall <= y.CreatedAt.wall

Ascending(list, field) ==
    \A i, j \in DOMAIN list : i < j => KeyLeq(field, list[i], list[j])
Descending(list, field) ==
    \A i, j \in DOMAIN list : i < j => KeyLeq(field, list[j], list[i])

\* C13: a list request with completed=true / completed=false returns only
\* todos whose completed is that value, and, with no search term, exactly the
\* todos of the store with that value, each once; with completed absent (and
\* no search term) it returns every todo of the store.
C13_CompletedFilterExact ==
    (last.op = "list" /\ last.query.completed \in {"", "true", "false"}) =>
       LET q == last.query IN
       /\ last.status = 200
       /\ ListedOnce
       /\ q.completed # "" =>
             \A k \in DOMAIN last.todos :
                last.todos[k].Completed = (q.completed = "true")
       /\ q.search = "" =>
             ListedIds = {i \in DOMAIN todos :
                             q.completed = "" \/ todos[i].completed = (q.completed = "true")}

\* completed=true on a store of one completed and one open todo lists the
\* completed one only.
C13_Witness ==
    /\ last.op = "list"
    /\ last.query.completed = "true"
    /\ last.query.search = ""
    /\ Len(todos) = 2
    /\ todos[1].completed # todos[2].completed
    /\ Len(last.todos) = 1

\* C14: a list request with a non-empty search term (and no completed value)
\* returns exactly the todos whose title or description contains the term as
\* a substring, for every term, also "%" and "_".
C14_SearchIsSubstring ==
    (last.op = "list" /\ last.query.search # "" /\ last.query.completed = "") =>
       ListedIds = {i \in DOMAIN todos :
                       \/ Contains(todos[i].title, last.query.search)
                       \/ Contains(todos[i].description, last.query.search)}

\* C15: with both a search term and a completed value, the list request
\* returns exactly the todos that are in both single-filter results, in the
\* requested order (the requested field among created_at, updated_at, title,
\* by default created_at; ascending for sortOrder=asc, else descending).
C15_BothFiltersIntersect ==
    (last.op = "list" /\ last.query.search # ""
        /\ last.query.completed \in {"true", "false"}
        /\ last.query.sortBy \in ValidFields \cup {""}) =>
       LET q == last.query
           IdsOf(result) ==
               IF IsSet(result.todos)
               THEN {Deref(result.todos)[k].ID : k \in DOMAIN Deref(result.todos)}
               ELSE {}
           bySearch == UNION {IdsOf(r) : r \in Search(todos,
                                  [BuildOptions(q) EXCEPT !.Completed = None])}
           byCompleted == UNION {IdsOf(r) : r \in Search(todos,
                                  [BuildOptions(q) EXCEPT !.Search = ""])}
           field == IF q.sortBy = "" THEN "created_at" ELSE q.sortBy
       IN /\ last.status = 200
          /\ ListedOnce
          /\ ListedIds = bySearch \cap byCompleted
          /\ \A k \in DOMAIN last.todos :
                /\ last.todos[k].Completed = (q.completed = "true")
                /\ \/ Contains(last.todos[k].Title, q.search)
                   \/ Contains(last.todos[k].Description, q.search)
                   \/ q.search = "%"
          /\ IF q.sortOrder = "asc" THEN Ascending(last.todos, field)
             ELSE Descending(last.todos, field)

\* search=b&completed=true&sortBy=title&sortOrder=asc on a store where one
\* todo passes only the search, and the other passes both filters.
C15_Witness ==
    /\ last.op = "list"
    /\ last.query = [search |-> "b", completed |-> "true",
                     sortBy |-> "title", sortOrder |-> "asc"]
    /\ Len(todos) = 2
    /\ ~todos[1].completed /\ todos[1].title = "B"
    /\ todos[2].completed /\ todos[2].title = "a" /\ todos[2].description = "b"
    /\ Len(last.todos) = 1
    /\ last.todos[1].ID = 2

\* C16: a list request with sortBy=updatedAt returns the todos ordered by
\* updatedAt (ascending for sortOrder=asc, else descending).
C16_SortByUpdatedAt ==
    (last.op = "list" /\ last.query.sortBy = "updatedAt") =>
       IF last.query.sortOrder = "asc" THEN Ascending(last.todos, "updated_at")
       ELSE Descending(last.todos, "updated_at")

C18_AscendingOnlyForAsc ==
    (last.op = "list"
        /\ (last.query.search # "" \/ last.query.completed # "" \/ last.query.sortBy # "")) =>
       LET q == last.query
           field == IF q.sortBy \in ValidFields THEN q.sortBy ELSE "created_at"
       IN IF q.sortOrder = "asc" THEN Ascending(last.todos, field)
          ELSE Descending(last.todos, field)

\* sortBy=title&sortOrder=ASC lists two todos of different titles in
\* descending order.
C18_Witness ==
    /\ last.op = "list"
    /\ last.query.sortBy = "title"
    /\ last.query.sortOrder = "ASC"
    /\ Len(last.todos) = 2
    /\ last.todos[1].Title = "a"
    /\ last.todos[2].Title = "B"

\* C19: a list request with sortBy=title&sortOrder=asc returns all the todos
\* that match its filters, each once, in non-decreasing order of title (the
\* byte order of strings).
C19_TitleAscending ==
    (last.op = "list" /\ last.query.sortBy = "title" /\ last.query.sortOrder = "asc"
        /\ last.query.completed \in {"", "true", "false"}) =>
       LET q == last.query IN
       /\ last.status = 200
       /\ ListedOnce
       /\ ListedIds =
             {i \in DOMAIN todos :
                 /\ q.completed # "" => todos[i].completed = (q.completed = "true")
                 /\ q.search \notin {"", "%"} =>
                       \/ Contains(todos[i].title, q.search)
                       \/ Contains(todos[i].description, q.search)}
       /\ \A i, j \in DOMAIN last.todos :
             i < j => StrLeq(last.todos[i].Title, last.todos[j].Title)

\* sortBy=title&sortOrder=asc with no filter on todos titled "a" and "B",
\* the later created titled "a": "B" is listed first.
C19_Witness ==
    /\ last.op = "list"
    /\ last.query = [search |-> "", completed |-> "",
                     sortBy |-> "title", sortOrder |-> "asc"]
    /\ Len(last.todos) = 2
    /\ last.todos[1].Title = "B"
    /\ last.todos[2].Title = "a"
    /\ last.todos[1].CreatedAt.wall < last.todos[2].CreatedAt.wall

\* C20: the choice between GetAll and Search does not show in the response:
\* a list request that carries only sortOrder=asc returns the todos in
\* ascending order of createdAt.
C20_SortOrderAloneAscending ==
    (last.op = "list"
        /\ last.query = [search |-> "", completed |-> "",
                         sortBy |-> "", sortOrder |-> "asc"]) =>
       Ascending(last.todos, "created_at")

\* C21: a list request whose completed parameter is neither "true" nor
\* "false" is treated as one without the parameter: with no search term it
\* returns every todo of the store.
C21_OtherCompletedIsUnset ==
    (last.op = "list" /\ last.query.completed \notin {"", "true", "false"}
        /\ last.query.search = "") =>
       ListedIds = DOMAIN todos

\* C22: GetAll returns every todo once, ordered by createdAt descending, and
\* what it can return is what Search can return for empty FilterOptions.
C22_GetAllIsEmptySearch ==
    (last.op = "list"
        /\ last.query = [search |-> "", completed |-> "", sortBy |-> "", sortOrder |-> ""]) =>
       /\ last.status = 200
       /\ ListedOnce
       /\ ListedIds = DOMAIN todos
       /\ \A k \in DOMAIN last.todos :
             last.todos[k] = ScanTodo(last.todos[k].ID, todos[last.todos[k].ID])
       /\ Descending(last.todos, "created_at")
       /\ GetAll(todos) =
             Search(todos, [Search |-> "", Completed |-> None, SortBy |-> "", SortOrder |-> ""])

\* The request without parameters on two todos of which the earlier created
\* was updated later: the later created is listed first.
C22_Witness ==
    /\ last.op = "list"
    /\ last.query = [search |-> "", completed |-> "", sortBy |-> "", sortOrder |-> ""]
    /\ Len(last.todos) = 2
    /\ last.todos[1].CreatedAt.wall > last.todos[2].CreatedAt.wall
    /\ last.todos[1].UpdatedAt.wall < last.todos[2].UpdatedAt.wall

\* C23: every list response is a 200 whose body is a JSON array, never null;
\* when no row of the store passes the filters (the store is empty, or
\* completed=true and no todo is completed) the array is empty.
C23_EmptyArrayNeverNull ==
    last.op = "list" =>
       /\ last.status = 200
       /\ ~last.null
       /\ (todos = <<>> \/ (last.query.completed = "true"
                            /\ \A i \in DOMAIN todos : ~todos[i].completed)) =>
             last.todos = <<>>

\* completed=true on a store of two open todos (Search path, no row passes).
C23_Witness ==
    /\ last.op = "list"
    /\ last.query.completed = "true"
    /\ Len(todos) = 2
    /\ \A i \in DOMAIN todos : ~todos[i].completed
    /\ last.status = 200
    /\ last.todos = <<>>

\* ------------------------------------------- claims on errors and on races
\* C24: when Delete fails with a storage failure (the DELETE statement could
\* not be executed), DELETE /api/todos/{id} answers 500; it answers 404 only
\* when no row has the id.
C24_DeleteFailureIs500 ==
    [][\A p \in Procs, idStr \in DOMAIN Decimal, execFails \in BOOLEAN :
          DeleteTodoRequest(p, idStr, execFails) =>
             /\ execFails => last'.status = 500
             /\ last'.status = 404 => Decimal[idStr] \notin DOMAIN todos]_vars

\* C25: GET, PATCH and DELETE on an id that no row has each answer 404 and
\* leave the store as it is; GetByID reports the missing row as a nil todo,
\* and the Update ends there, without a write.
C25_MissingIdIsNotFound ==
    [][\A p \in Procs, id \in PathIds :
          id \notin DOMAIN todos =>
             /\ GetTodo(p, id) => last' = Response("get", id, 404, None)
             /\ UpdateTodo(p, id) =>
                   (last' = Response("update", id, 404, None) /\ pc' = pc)
             /\ DeleteTodo(p, id) => last' = Response("delete", id, 404, None)
             /\ (GetTodo(p, id) \/ UpdateTodo(p, id) \/ DeleteTodo(p, id)) =>
                   (todos' = todos /\ ~IsSet(GetByID(todos, id)))]_vars

\* GET on the id of a todo that was created and has been deleted: 404.
C25_Witness ==
    /\ last.op = "get"
    /\ last.status = 404
    /\ \E k \in DOMAIN issued : issued[k].ID = last.id
    /\ last.id \notin DOMAIN todos

\* C26: a GET, PATCH or DELETE whose path id is not an integer, and a POST or
\* PATCH whose body is not valid JSON, is answered 400, and no repository
\* call is made: the table, the clock and every request in progress are as
\* they were.
C26_MalformedIs400 ==
    [][\A p \in Procs :
          LET Rejected(op) ==
                  /\ last' = Response(op, 0, 400, None)
                  /\ UNCHANGED <<todos, seq, clock, pc, loc, issued>>
          IN /\ \A idStr \in {"abc", "1x"} :
                   /\ GetTodoRequest(p, idStr) => Rejected("get")
                   /\ \A decodes \in BOOLEAN :
                         UpdateTodoRequest(p, idStr, decodes) => Rejected("update")
                   /\ \A execFails \in BOOLEAN :
                         DeleteTodoRequest(p, idStr, execFails) => Rejected("delete")
             /\ \A idStr \in PathSegs :
                   UpdateTodoRequest(p, idStr, FALSE) => Rejected("update")
             /\ \A t \in Readings :
                   CreateTodoRequest(p, None, t) => Rejected("create")]_vars

\* A DELETE with a malformed path id was answered 400 while an Update of the
\* stored todo was in progress.
C26_Witness ==
    /\ last = Response("delete", 0, 400, None)
    /\ \E p \in Procs : pc[p] = "exec" /\ loc[p].id \in DOMAIN todos

\* C27: a todo with a larger id never has an earlier createdAt than a todo
\* with a smaller id, also when Creates run concurrently.
C27_CreatedAtFollowsId ==
    \A i, j \in DOMAIN todos : i < j => todos[i].created_at <= todos[j].created_at

\* C28: whenever Update returns a todo, the todo carries, for every field
\* present in the request, the value the request supplied.
C28_UpdateReturnsItsValues ==
    [][\A p \in Procs :
          (UpdateReread(p) /\ last'.status = 200) =>
             LET req == loc[p].req
                 todo == Deref(last'.todo)
             IN /\ IsSet(req.Title) => todo.Title = Deref(req.Title)
                /\ IsSet(req.Description) => todo.Description = Deref(req.Description)
                /\ IsSet(req.Completed) => todo.Completed = Deref(req.Completed)]_vars

\* C29: an Update's UPDATE statement on an existing todo sets updatedAt to a
\* time not before the one the todo had: updatedAt never decreases.
C29_UpdatedAtNeverDecreases ==
    [][\A i \in DOMAIN todos \cap DOMAIN todos' :
          todos[i].updated_at <= todos'[i].updated_at]_vars

\* The names in seq, as a set.
Range(s) == {s[k] : k \in DOMAIN s}

\* C30: Run applies the pending .sql migrations in ascending filename order,
\* each with its schema_migrations record in one transaction. In every state
\* the migrations in effect are files of the directory that are not
\* directories and end in .sql, none is in effect twice, they took effect in
\* ascending filename order, and the recorded names are exactly the names in
\* effect. A commit puts into effect the next file of the sorted list, every
\* file before it being recorded already. A step that makes Run return an
\* error leaves the database as it was before the failed migration began, and
\* a Run that returned an error is over: nothing is applied until Run is
\* called again.
C30_MigrationsAtomicInOrder ==
    /\ [](/\ \A k \in DOMAIN schema.effects :
                \E e \in mig.fs : e.name = schema.effects[k] /\ ~e.dir
                                   /\ HasSuffix(e.name, ".sql")
          /\ \A k, m \in DOMAIN schema.effects :
                k < m => /\ schema.effects[k] # schema.effects[m]
                         /\ StrLeq(schema.effects[k], schema.effects[m])
          /\ schema.recorded = Range(schema.effects)
          /\ (mig.err => mig.pc = "idle" /\ mig.tx = None))
    /\ [][/\ schema'.effects # schema.effects =>
                /\ mig.pc = "commit"
                /\ schema'.effects = Append(schema.effects, mig.files[mig.i])
                /\ schema'.recorded = schema.recorded \cup {mig.files[mig.i]}
                /\ \A k \in 1..(mig.i - 1) : mig.files[k] \in schema.recorded
          /\ (mig.pc # "idle" /\ mig'.err) =>
                /\ schema' = schema
                /\ mig'.pc = "idle"]_vars

\* Run applied 1.sql, failed on 10.sql and returned, with 2.sql still to come.
C30_Witness ==
    /\ mig.runs = 1
    /\ mig.pc = "idle"
    /\ mig.err
    /\ mig.files = <<"1.sql", "10.sql", "2.sql">>
    /\ mig.i = 2
    /\ schema.effects = <<"1.sql">>
    /\ schema.recorded = {"1.sql"}

====
